---- MODULE Spec2Model ----
(***************************************************************************)
(* melobot: the forward websocket connector (ForwardWsConn) as a state     *)
(* machine of asyncio tasks.  A step of a task is the code it runs between *)
(* two suspensions: an await that does not block (a set Event, a done      *)
(* Future, a free Lock, a non-empty Queue) is not a scheduling point.      *)
(*                                                                         *)
(* Run r (the r-th _run task) creates Future r and, on success, transport  *)
(* r; it spawns listen task r.  0 stands for "not assigned yet".           *)
(***************************************************************************)
EXTENDS Integers, Sequences, FiniteSets, TLC

\* ---------------------------------------------------------------- bounds
MaxRuns == 2
MaxRetry == 1
MaxTries == 2
MaxActions == 2
MaxTime == 4
\* cd_time of the constructor, in clock ticks
cd_time == 2

Runs == 1..MaxRuns
Acts == 1..MaxActions

\* bounds of the tools.py models
MaxTasks == 3
MaxReadLimit == 2
MaxTwinCalls == 5
MaxClock == 2
MaxCalls == 3
MaxCdClock == 4
\* interval of the cooldown decorator, in clock ticks
interval == 2

Tasks == 1..MaxTasks
Calls == 1..MaxCalls

\* bound of the units a transport delivers to _listen
MaxUnits == 3

VARIABLES
  max_retry,        \* constructor parameter max_retry
  allow_reconnect,  \* constructor parameter allow_reconnect
  conn,             \* self.conn: the transport last assigned
  cst,              \* state of each transport: none, open, lost, closed
  client_close,     \* self._client_close: the Future last assigned
  futDone,          \* futDone[f]: Future f is done
  conn_ready,       \* self._conn_ready (asyncio.Event)
  allow_reconn,     \* self._allow_reconn
  reconn_flag,      \* self._reconn_flag
  run_lock,         \* self._run_lock: the run that owns it (0: free)
  lock_waiters,     \* the lock's FIFO of waiting runs
  rpc,              \* position of each _run task
  tries,            \* connect attempts begun by each _run task
  nRuns,            \* _run tasks created so far
  entered,          \* __aenter__ calls so far
  lpc,              \* position of each _listen task
  lrd,              \* transport a _listen task is reading (self.conn at recv())
  apc,              \* position of the alive() task
  afut,             \* Future the alive() task awaits
  ready_signal,     \* self._ready_signal of the connector base
  slack,            \* self.slack of the connector base
  send_queue,       \* self._send_queue
  pre_send_time,    \* self._pre_send_time
  spc,              \* position of the _send_queue_watch task
  cur,              \* its local variable action
  wakeAt,           \* when its asyncio.sleep ends
  now,              \* time.time()
  cpc,              \* position of each _send(action) call
  enq,              \* log: actions in the order they were put on the queue
  sent,             \* log: actions in the order conn.send accepted them
  closeReq,         \* log: _close() has been called
  err,              \* exception raised by a set_result on a done Future
  emitted,          \* log: <<r, signal>> for each lifecycle signal _listen r emits
  presend,          \* log: actions for which ACTION_PRESEND was emitted
  presend_done,     \* log: actions whose ACTION_PRESEND emission has returned
  recvd,            \* log: the units conn.recv() returned, in order
  issued,           \* log: <<i, dispatcher>> for each to_task of lines 195/197
  dispatching,      \* units whose dispatch task has not finished yet
  \* RWController (tools.py)
  read_limit,       \* constructor parameter read_limit (0: None)
  read_semaphore,   \* value of read_semaphore
  write_semaphore,  \* value of write_semaphore
  read_num,         \* read_num
  read_num_lock,    \* task that owns read_num_lock (0: free)
  rn_waiters,       \* the lock's FIFO of waiting tasks
  tpc,              \* position of each task using the controller
  \* the pair made by get_twin_event (tools.py)
  twin,             \* twin[e]: the flag of event e (1: first, 2: second)
  twin_calls,       \* log: the set()/clear() calls made so far
  \* IdWorker (tools.py)
  datacenter_id,    \* constructor parameter datacenter_id
  worker_id,        \* constructor parameter worker_id
  clock,            \* int(time.time() * 1000) - STARTEPOCH
  last_timestamp,   \* self.last_timestamp, less STARTEPOCH (first call: -1)
  sequence,         \* self.sequence
  ipc,              \* position of the get_id call: idle, spin
  new_id,           \* the id last returned (-1: none yet)
  id_ret,           \* how the last get_id call ended (waiting: it has not)
  id_failed,        \* log: some get_id call has raised
  \* a function wrapped by lock(callback) (tools.py)
  alock,            \* the call that holds alock (0: free)
  gpc,              \* position of each call of wrapped_func
  func_runs,        \* log: times each call has started func
  callback_runs,    \* log: times each call has invoked callback
  outcome,          \* log: what each call returned or raised
  \* a function wrapped by cooldown(busy_callback, cd_callback, interval)
  cd_alock,         \* the call that holds alock (0: free)
  cd_callback,      \* a cd_callback was given (FALSE: None)
  pre_finish_t,     \* pre_finish_t
  cd_clock,         \* time.time()
  kpc,              \* position of each call of wrapped_func
  remain_t,         \* remain_t of each call (-1: not computed)
  cd_wake           \* when the asyncio.sleep of each call ends

lifeVars == <<conn, cst, client_close, futDone, conn_ready, allow_reconn,
              reconn_flag, run_lock, lock_waiters, rpc, tries, nRuns, entered,
              lpc, lrd, apc, afut, ready_signal, closeReq, err, emitted>>
hookVars == <<presend, presend_done>>
sendVars == <<slack, send_queue, pre_send_time, spc, cur, wakeAt, now, cpc,
              enq, sent, hookVars>>
confVars == <<max_retry, allow_reconnect>>
rwVars == <<read_limit, read_semaphore, write_semaphore, read_num,
            read_num_lock, rn_waiters, tpc>>
twinVars == <<twin, twin_calls>>
idVars == <<datacenter_id, worker_id, clock, last_timestamp, sequence, ipc,
            new_id, id_ret, id_failed>>
recvVars == <<recvd, issued, dispatching>>
lockVars == <<alock, gpc, func_runs, callback_runs, outcome>>
cdVars == <<cd_alock, cd_callback, pre_finish_t, cd_clock, kpc, remain_t,
            cd_wake>>
guardVars == <<lockVars, cdVars>>
toolVars == <<rwVars, twinVars, idVars, guardVars>>
vars == <<confVars, lifeVars, sendVars, recvVars, toolVars>>

\* ------------------------------------------------------------ __init__
ConnInit ==
  /\ max_retry \in -1..MaxRetry
  /\ allow_reconnect \in BOOLEAN
  /\ allow_reconn = allow_reconnect
  /\ conn = 0
  /\ cst = [r \in Runs |-> "none"]
  /\ client_close = 0
  /\ futDone = [r \in Runs |-> FALSE]
  /\ conn_ready = FALSE
  /\ reconn_flag = FALSE
  /\ run_lock = 0
  /\ lock_waiters = <<>>
  /\ rpc = [r \in Runs |-> "none"]
  /\ tries = [r \in Runs |-> 0]
  /\ nRuns = 0
  /\ entered = 0
  /\ lpc = [r \in Runs |-> "none"]
  /\ lrd = [r \in Runs |-> 0]
  /\ apc = "none"
  /\ afut = 0
  /\ ready_signal = FALSE
  /\ slack = FALSE
  /\ send_queue = <<>>
  /\ pre_send_time = 0
  /\ spc = "none"
  /\ cur = 0
  /\ wakeAt = 0
  /\ now = 0
  /\ cpc = [a \in Acts |-> "idle"]
  /\ enq = <<>>
  /\ sent = <<>>
  /\ closeReq = FALSE
  /\ err = "none"
  /\ emitted = <<>>
  /\ presend = <<>>
  /\ presend_done = {}
  /\ recvd = <<>>
  /\ issued = <<>>
  /\ dispatching = {}

\* the connector built with the defaults of its constructor
ConnDefault == ConnInit /\ max_retry = -1 /\ allow_reconnect = FALSE

\* RWController.__init__: read_limit None (0 here) makes no read semaphore
RWInit(limits) ==
  /\ read_limit \in limits
  /\ read_semaphore = read_limit
  /\ write_semaphore = 1
  /\ read_num = 0
  /\ read_num_lock = 0
  /\ rn_waiters = <<>>
  /\ tpc = [t \in Tasks |-> "idle"]

\* AsyncTwinEvent.bind called on event e
Other(e) == 3 - e
Bind(tw, e) == [tw EXCEPT ![Other(e)] = ~tw[e]]

\* get_twin_event: two fresh events, a.bind(b), b.bind(a)
TwinInit ==
  /\ twin = Bind(Bind([e \in {1, 2} |-> FALSE], 1), 2)
  /\ twin_calls = <<>>

\* IdWorker.__init__ with sequence = 0
IdInit(dcs, ws, clocks) ==
  /\ datacenter_id \in dcs
  /\ worker_id \in ws
  /\ clock \in clocks
  /\ last_timestamp = -1
  /\ sequence = 0
  /\ ipc = "idle"
  /\ new_id = -1
  /\ id_ret = "none"
  /\ id_failed = FALSE

\* lock(callback): line 301 makes the lock; no call has been made
LockInit ==
  /\ alock = 0
  /\ gpc = [c \in Calls |-> "idle"]
  /\ func_runs = [c \in Calls |-> 0]
  /\ callback_runs = [c \in Calls |-> 0]
  /\ outcome = [c \in Calls |-> <<"none", "none">>]

\* cooldown(...): lines 338-339, the decorator is applied at time 0
CdInit(cbs) ==
  /\ cd_alock = 0
  /\ cd_callback \in cbs
  /\ cd_clock = 0
  /\ pre_finish_t = cd_clock - interval - 1
  /\ kpc = [c \in Calls |-> "idle"]
  /\ remain_t = [c \in Calls |-> -1]
  /\ cd_wake = [c \in Calls |-> 0]

GuardInit == LockInit /\ CdInit({FALSE})

\* the connector, beside an RWController(), a twin pair, ID_WORKER and two
\* guarded functions
Init ==
  /\ ConnInit
  /\ RWInit({0})
  /\ TwinInit
  /\ IdInit({1}, {1}, {0})
  /\ GuardInit

\* ------------------------------------------------- asyncio.Event waiters
\* Event.set() completes the future of every waiter; a woken waiter goes on
\* without looking at the event again.
WakeCR(p) == IF p = "wait_cr" THEN "cr_woken" ELSE p
WakeRS(p) == IF p = "wait_rs" THEN "rs_woken" ELSE p

\* await self._conn_ready.wait(): where the caller is afterwards
GateCR(passed) == IF conn_ready THEN passed ELSE "wait_cr"

\* ------------------------------------------------------ asyncio.Lock
LockFreeAlways == TRUE
LockFree == run_lock = 0 /\ lock_waiters = <<>>

\* Lock.release(): the first waiter is woken and owns the lock next
ReleaseLock ==
  IF lock_waiters = <<>>
  THEN run_lock' = 0 /\ lock_waiters' = <<>>
  ELSE run_lock' = Head(lock_waiters) /\ lock_waiters' = Tail(lock_waiters)

\* ------------------------------------------------------ Future.set_result
\* set_result on a done Future raises InvalidStateError
SetResult(f) ==
  IF futDone[f]
  THEN err' = "InvalidStateError" /\ UNCHANGED futDone
  ELSE futDone' = [futDone EXCEPT ![f] = TRUE] /\ UNCHANGED err

\* to_task(self._run())
SpawnRun ==
  /\ nRuns' = nRuns + 1
  /\ rpc' = [rpc EXCEPT ![nRuns + 1] = "created"]

\* ---------------------------------------------------------------- _close
CloseNoCheck == FALSE
CloseIsDone == futDone[client_close]

Close ==
  IF CloseIsDone
  THEN UNCHANGED <<allow_reconn, futDone, err>>
  ELSE allow_reconn' = FALSE /\ SetResult(client_close)

\* ------------------------------------------------------------ __aenter__
AEnter ==
  /\ entered = 0
  /\ entered' = 1
  /\ SpawnRun
  /\ UNCHANGED <<confVars, toolVars, recvVars, emitted,
                 sendVars, conn, cst, client_close, futDone,
                 conn_ready, allow_reconn, reconn_flag, run_lock, lock_waiters,
                 tries, lpc, lrd, apc, afut, ready_signal, closeReq, err>>

\* a second __aenter__ on the same connector
AEnterAgain ==
  /\ entered = 1
  /\ nRuns < MaxRuns
  /\ entered' = 2
  /\ SpawnRun
  /\ UNCHANGED <<confVars, toolVars, recvVars, emitted,
                 sendVars, conn, cst, client_close, futDone,
                 conn_ready, allow_reconn, reconn_flag, run_lock, lock_waiters,
                 tries, lpc, lrd, apc, afut, ready_signal, closeReq, err>>

\* __aexit__ (or any other caller) calls _close(); the attribute _client_close
\* exists once the first _run has started
AExit ==
  /\ client_close # 0
  /\ closeReq' = TRUE
  /\ Close
  /\ UNCHANGED <<confVars, toolVars, recvVars, emitted,
                 sendVars, conn, cst, client_close, conn_ready,
                 reconn_flag, run_lock, lock_waiters, rpc, tries, nRuns,
                 entered, lpc, lrd, apc, afut, ready_signal>>

\* the owning bot sets the connector's _ready_signal
SetReady ==
  /\ ~ready_signal
  /\ ready_signal' = TRUE
  /\ lpc' = [r \in Runs |-> WakeRS(lpc[r])]
  /\ spc' = WakeRS(spc)
  /\ cpc' = [a \in Acts |-> WakeRS(cpc[a])]
  /\ UNCHANGED <<confVars, toolVars, recvVars, emitted, hookVars,
                 conn, cst, client_close, futDone, conn_ready,
                 allow_reconn, reconn_flag, run_lock, lock_waiters, rpc, tries,
                 nRuns, entered, lrd, apc, afut, closeReq, err, slack,
                 send_queue, pre_send_time, cur, wakeAt, now, enq, sent>>

\* ------------------------------------------------------------------ _run
\* lines 69-76: the lock is taken, the Future made, the first attempt begun
RunEnter(r) ==
  /\ client_close' = r
  /\ tries' = [tries EXCEPT ![r] = 1]
  /\ rpc' = [rpc EXCEPT ![r] = "connecting"]

RunBegin(r) ==
  /\ rpc[r] = "created"
  /\ IF LockFree
     THEN /\ run_lock' = r
          /\ RunEnter(r)
          /\ UNCHANGED lock_waiters
     ELSE /\ lock_waiters' = Append(lock_waiters, r)
          /\ rpc' = [rpc EXCEPT ![r] = "lock_wait"]
          /\ UNCHANGED <<run_lock, client_close, tries>>
  /\ UNCHANGED <<confVars, toolVars, recvVars, emitted,
                 sendVars, conn, cst, futDone, conn_ready,
                 allow_reconn, reconn_flag, nRuns, entered, lpc, lrd, apc,
                 afut, ready_signal, closeReq, err>>

RunAcquired(r) ==
  /\ rpc[r] = "lock_wait"
  /\ run_lock = r
  /\ RunEnter(r)
  /\ UNCHANGED <<confVars, toolVars, recvVars, emitted,
                 sendVars, conn, cst, futDone, conn_ready,
                 allow_reconn, reconn_flag, run_lock, lock_waiters, nRuns,
                 entered, lpc, lrd, apc, afut, ready_signal, closeReq, err>>

\* websockets.connect succeeds: lines 76-81 and 91-94
ConnectOK(r) ==
  /\ rpc[r] = "connecting"
  /\ conn' = r
  /\ cst' = [cst EXCEPT ![r] = "open"]
  /\ conn_ready' = TRUE
  /\ lpc' = [x \in Runs |-> IF x = r THEN "created" ELSE WakeCR(lpc[x])]
  /\ spc' = WakeCR(spc)
  /\ apc' = WakeCR(apc)
  /\ cpc' = [a \in Acts |-> WakeCR(cpc[a])]
  /\ rpc' = [rpc EXCEPT ![r] = "await_close"]
  /\ UNCHANGED <<confVars, toolVars, recvVars, emitted, hookVars,
                 client_close, futDone, allow_reconn, reconn_flag,
                 run_lock, lock_waiters, tries, nRuns, entered, lrd, afut,
                 ready_signal, closeReq, err, slack, send_queue,
                 pre_send_time, cur, wakeAt, now, enq, sent>>

\* websockets.connect raises: lines 82-86.  With unbounded retries the
\* endpoint refuses at most MaxTries - 1 times in a row.
ConnectFail(r) ==
  /\ rpc[r] = "connecting"
  /\ (max_retry < 0) => (tries[r] < MaxTries)
  /\ rpc' = [rpc EXCEPT ![r] = "retry_sleep"]
  /\ UNCHANGED <<confVars, toolVars, recvVars, emitted,
                 sendVars, conn, cst, client_close, futDone,
                 conn_ready, allow_reconn, reconn_flag, run_lock, lock_waiters,
                 tries, nRuns, entered, lpc, lrd, apc, afut, ready_signal,
                 closeReq, err>>

\* the for loop of line 74 has another iteration
MoreAttemptsOffByOne(r) == max_retry < 0 \/ tries[r] < max_retry + 2
MoreAttempts(r) == max_retry < 0 \/ tries[r] < max_retry + 1

\* the sleep of line 86 ends: the next attempt, or line 88
RetryWake(r) ==
  /\ rpc[r] = "retry_sleep"
  /\ IF MoreAttempts(r)
     THEN /\ tries' = [tries EXCEPT ![r] = @ + 1]
          /\ rpc' = [rpc EXCEPT ![r] = "connecting"]
          /\ UNCHANGED <<run_lock, lock_waiters>>
     ELSE /\ rpc' = [rpc EXCEPT ![r] = "failed"]
          /\ ReleaseLock
          /\ UNCHANGED tries
  /\ UNCHANGED <<confVars, toolVars, recvVars, emitted,
                 sendVars, conn, cst, client_close, futDone,
                 conn_ready, allow_reconn, reconn_flag, nRuns, entered, lpc,
                 lrd, apc, afut, ready_signal, closeReq, err>>

\* line 94 returns (the Future made by this run is done): lines 98-99
RunCloseBegin(r) ==
  /\ rpc[r] = "await_close"
  /\ futDone[r]
  /\ rpc' = [rpc EXCEPT ![r] = "closing"]
  /\ UNCHANGED <<confVars, toolVars, recvVars, emitted,
                 sendVars, conn, cst, client_close, futDone,
                 conn_ready, allow_reconn, reconn_flag, run_lock, lock_waiters,
                 tries, nRuns, entered, lpc, lrd, apc, afut, ready_signal,
                 closeReq, err>>

\* self.conn.close() and wait_closed() return: lines 99-101, the lock released
RunCloseEnd(r) ==
  /\ rpc[r] = "closing"
  /\ cst' = [cst EXCEPT ![conn] = "closed"]
  /\ rpc' = [rpc EXCEPT ![r] = "done"]
  /\ ReleaseLock
  /\ UNCHANGED <<confVars, toolVars, recvVars, emitted,
                 sendVars, conn, client_close, futDone, conn_ready,
                 allow_reconn, reconn_flag, tries, nRuns, entered, lpc, lrd,
                 apc, afut, ready_signal, closeReq, err>>

\* the remote end drops the transport
TransportLost(r) ==
  /\ cst[r] = "open"
  /\ allow_reconnect => nRuns < MaxRuns
  /\ cst' = [cst EXCEPT ![r] = "lost"]
  /\ UNCHANGED <<confVars, toolVars, recvVars, emitted,
                 sendVars, conn, client_close, futDone, conn_ready,
                 allow_reconn, reconn_flag, run_lock, lock_waiters, rpc, tries,
                 nRuns, entered, lpc, lrd, apc, afut, ready_signal, closeReq,
                 err>>

\* --------------------------------------------------------------- _listen
\* _reconnect: lines 115-118 (a coroutine without a suspension)
Reconnect ==
  /\ conn_ready' = FALSE
  /\ SetResult(client_close)
  /\ IF futDone[client_close]
     THEN UNCHANGED <<reconn_flag, nRuns, rpc>>
     ELSE reconn_flag' = TRUE /\ SpawnRun

\* lines 174-178: the signal _listen emits
LifecycleSignalFirst == "FIRST_CONNECTED"
LifecycleSignal == IF ~reconn_flag THEN "FIRST_CONNECTED" ELSE "RECONNECTED"

\* _listen r arrives at position p: at "hook" it has emitted its signal
ListenEmit(r, p) ==
  emitted' = IF p = "hook" THEN Append(emitted, <<r, LifecycleSignal>>)
             ELSE emitted

\* lines 172-179: the two gates, then the lifecycle hook is emitted
ListenBegin(r) ==
  /\ lpc[r] = "created"
  /\ lpc' = [lpc EXCEPT ![r] = IF ready_signal THEN GateCR("hook") ELSE "wait_rs"]
  /\ ListenEmit(r, lpc'[r])
  /\ UNCHANGED <<confVars, toolVars, recvVars,
                 sendVars, conn, cst, client_close, futDone,
                 conn_ready, allow_reconn, reconn_flag, run_lock, lock_waiters,
                 rpc, tries, nRuns, entered, lrd, apc, afut, ready_signal,
                 closeReq, err>>

ListenResume(r) ==
  /\ lpc[r] \in {"rs_woken", "cr_woken"}
  /\ lpc' = [lpc EXCEPT ![r] = IF @ = "rs_woken" THEN GateCR("hook") ELSE "hook"]
  /\ ListenEmit(r, lpc'[r])
  /\ UNCHANGED <<confVars, toolVars, recvVars,
                 sendVars, conn, cst, client_close, futDone,
                 conn_ready, allow_reconn, reconn_flag, run_lock, lock_waiters,
                 rpc, tries, nRuns, entered, lrd, apc, afut, ready_signal,
                 closeReq, err>>

\* the FIRST_CONNECTED / RECONNECTED emission returns; line 184 reads self.conn
ListenHookDone(r) ==
  /\ lpc[r] = "hook"
  /\ lpc' = [lpc EXCEPT ![r] = "recv"]
  /\ lrd' = [lrd EXCEPT ![r] = conn]
  /\ UNCHANGED <<confVars, toolVars, recvVars, emitted,
                 sendVars, conn, cst, client_close, futDone,
                 conn_ready, allow_reconn, reconn_flag, run_lock, lock_waiters,
                 rpc, tries, nRuns, entered, apc, afut, ready_signal,
                 closeReq, err>>

\* line 212 read as its negation's else branch: reconnect is permitted
ReconnNever == FALSE
ReconnAlways == TRUE
ReconnAllowed == allow_reconn

\* line 210
ListenSeesNoClose == FALSE
ListenSeesClose == futDone[client_close]

\* recv() raises ConnectionClosed: lines 198-199, 207-215
ListenRecvClosed(r) ==
  /\ lpc[r] = "recv"
  /\ cst[lrd[r]] # "open"
  /\ (~ListenSeesClose /\ ReconnAllowed) => nRuns < MaxRuns
  /\ lpc' = [lpc EXCEPT ![r] = "done"]
  /\ IF ListenSeesClose
     THEN UNCHANGED <<allow_reconn, futDone, err, conn_ready, reconn_flag,
                      nRuns, rpc>>
     ELSE IF ~ReconnAllowed
          THEN Close /\ UNCHANGED <<conn_ready, reconn_flag, nRuns, rpc>>
          ELSE Reconnect /\ UNCHANGED allow_reconn
  /\ UNCHANGED <<confVars, toolVars, recvVars, emitted,
                 sendVars, conn, cst, client_close, run_lock,
                 lock_waiters, tries, entered, lrd, apc, afut, ready_signal,
                 closeReq>>

\* ------------------------------------------------ _listen: the receive loop
\* What conn.recv() can return: the empty text, a text the event builder
\* rejects, an event whose dispatch cannot be issued (is_resp_event or the
\* dispatcher call raises), a response event, any other event.
Units == {"empty", "undecodable", "unissuable", "response", "common"}

\* line 186
IsEmpty(u) == u = "empty"
\* line 188: self._event_builder.build(raw_event) returns an event
Builds(u) == u \in {"unissuable", "response", "common"}
\* lines 194-197: the to_task call is reached and made
Issues(u) == u \in {"response", "common"}

\* lines 194-197: the dispatcher a decoded event is handed to
DispatcherCommon(u) == "common_dispatcher"
Dispatcher(u) ==
  IF u = "response" THEN "resp_dispatcher" ELSE "common_dispatcher"

\* lines 186-187 and 198-204: where _listen is after a unit: `continue`, an
\* error other than ConnectionClosed is logged, or the iteration ends
AfterUnitRaise(u) == IF ~IsEmpty(u) /\ ~Builds(u) THEN "done" ELSE "recv"
AfterUnit(u) == "recv"

\* lines 184-197: recv() returns unit u on the transport being read
ListenRecv(r, u) ==
  /\ lpc[r] = "recv"
  /\ cst[lrd[r]] = "open"
  /\ Len(recvd) < MaxUnits
  /\ recvd' = Append(recvd, u)
  /\ IF ~IsEmpty(u) /\ Builds(u) /\ Issues(u)
     THEN /\ issued' = Append(issued, <<Len(recvd) + 1, Dispatcher(u)>>)
          /\ dispatching' = dispatching \cup {Len(recvd) + 1}
     ELSE UNCHANGED <<issued, dispatching>>
  /\ lpc' = [lpc EXCEPT ![r] = AfterUnit(u)]
  /\ UNCHANGED <<confVars, toolVars, sendVars, conn, cst, client_close,
                 futDone, conn_ready, allow_reconn, reconn_flag, run_lock,
                 lock_waiters, rpc, tries, nRuns, entered, lrd, apc, afut,
                 ready_signal, closeReq, err, emitted>>

\* the task made by to_task at line 195 or 197 finishes
DispatchDone(i) ==
  /\ i \in dispatching
  /\ dispatching' = dispatching \ {i}
  /\ UNCHANGED <<confVars, toolVars, sendVars, lifeVars, recvd, issued>>

\* the _listen task is cancelled while it awaits recv(): lines 205-215
ListenCancelled(r) ==
  /\ lpc[r] = "recv"
  /\ (~ListenSeesClose /\ ReconnAllowed) => nRuns < MaxRuns
  /\ lpc' = [lpc EXCEPT ![r] = "done"]
  /\ IF ListenSeesClose
     THEN UNCHANGED <<allow_reconn, futDone, err, conn_ready, reconn_flag,
                      nRuns, rpc>>
     ELSE IF ~ReconnAllowed
          THEN Close /\ UNCHANGED <<conn_ready, reconn_flag, nRuns, rpc>>
          ELSE Reconnect /\ UNCHANGED allow_reconn
  /\ UNCHANGED <<confVars, toolVars, recvVars, emitted,
                 sendVars, conn, cst, client_close, run_lock,
                 lock_waiters, tries, entered, lrd, apc, afut, ready_signal,
                 closeReq>>

\* ---------------------------------------------------------- _alive_tasks
\* lines 228-229: the sender task and the alive() task are created
AliveTasks ==
  /\ entered >= 1
  /\ spc = "none"
  /\ spc' = "created"
  /\ apc' = "created"
  /\ UNCHANGED <<confVars, toolVars, recvVars, emitted, hookVars,
                 conn, cst, client_close, futDone, conn_ready,
                 allow_reconn, reconn_flag, run_lock, lock_waiters, rpc, tries,
                 nRuns, entered, lpc, lrd, afut, ready_signal, closeReq, err,
                 slack, send_queue, pre_send_time, cur, wakeAt, now, cpc, enq,
                 sent>>

\* line 221: the Future now in self._client_close is awaited
AliveAwaitClose ==
  /\ apc' = "wait_close"
  /\ afut' = client_close

\* alive() starts; it is created after the first _run task and so runs
\* after that task has made its Future
AliveBegin ==
  /\ apc = "created"
  /\ client_close # 0
  /\ AliveAwaitClose
  /\ UNCHANGED <<confVars, toolVars, recvVars, emitted,
                 sendVars, conn, cst, client_close, futDone,
                 conn_ready, allow_reconn, reconn_flag, run_lock, lock_waiters,
                 rpc, tries, nRuns, entered, lpc, lrd, ready_signal, closeReq,
                 err>>

\* the awaited Future is done: lines 222-224
AliveClosed ==
  /\ apc = "wait_close"
  /\ futDone[afut]
  /\ IF ~allow_reconn
     THEN apc' = "done" /\ afut' = 0
     ELSE IF conn_ready
          THEN AliveAwaitClose
          ELSE apc' = "wait_cr" /\ afut' = 0
  /\ UNCHANGED <<confVars, toolVars, recvVars, emitted,
                 sendVars, conn, cst, client_close, futDone,
                 conn_ready, allow_reconn, reconn_flag, run_lock, lock_waiters,
                 rpc, tries, nRuns, entered, lpc, lrd, ready_signal, closeReq,
                 err>>

\* woken by _conn_ready.set(): back to line 221
AliveReady ==
  /\ apc = "cr_woken"
  /\ AliveAwaitClose
  /\ UNCHANGED <<confVars, toolVars, recvVars, emitted,
                 sendVars, conn, cst, client_close, futDone,
                 conn_ready, allow_reconn, reconn_flag, run_lock, lock_waiters,
                 rpc, tries, nRuns, entered, lpc, lrd, ready_signal, closeReq,
                 err>>

\* the task returned by _alive_tasks is cancelled at an await: lines 225-226
AliveCancel ==
  /\ apc \in {"wait_close", "wait_cr", "cr_woken"}
  /\ apc' = "done"
  /\ afut' = 0
  /\ closeReq' = TRUE
  /\ Close
  /\ UNCHANGED <<confVars, toolVars, recvVars, emitted,
                 sendVars, conn, cst, client_close, conn_ready,
                 reconn_flag, run_lock, lock_waiters, rpc, tries, nRuns,
                 entered, lpc, lrd, ready_signal>>

\* ----------------------------------------------------------------- _send
\* line 135
InSlackNever == FALSE
InSlack == slack

\* lines 135-138 of the call for action a
SendFinish(a) ==
  IF InSlack
  THEN /\ cpc' = [cpc EXCEPT ![a] = "dropped"]
       /\ UNCHANGED <<send_queue, enq>>
  ELSE /\ cpc' = [cpc EXCEPT ![a] = "queued"]
       /\ send_queue' = Append(send_queue, a)
       /\ enq' = Append(enq, a)

\* _send(a) is called; actions are numbered in the order of the calls
SendCall(a) ==
  /\ cpc[a] = "idle"
  /\ \A b \in Acts : b < a => cpc[b] # "idle"
  /\ IF ~ready_signal
     THEN cpc' = [cpc EXCEPT ![a] = "wait_rs"] /\ UNCHANGED <<send_queue, enq>>
     ELSE IF ~conn_ready
          THEN cpc' = [cpc EXCEPT ![a] = "wait_cr"] /\ UNCHANGED <<send_queue, enq>>
          ELSE SendFinish(a)
  /\ UNCHANGED <<confVars, toolVars, recvVars, hookVars,
                 lifeVars, slack, pre_send_time, spc, cur, wakeAt,
                 now, sent>>

SendResume(a) ==
  /\ cpc[a] \in {"rs_woken", "cr_woken"}
  /\ IF cpc[a] = "rs_woken" /\ ~conn_ready
     THEN cpc' = [cpc EXCEPT ![a] = "wait_cr"] /\ UNCHANGED <<send_queue, enq>>
     ELSE SendFinish(a)
  /\ UNCHANGED <<confVars, toolVars, recvVars, hookVars,
                 lifeVars, slack, pre_send_time, spc, cur, wakeAt,
                 now, sent>>

\* the owning bot switches slack mode
SlackOn ==
  /\ ~slack
  /\ slack' = TRUE
  /\ UNCHANGED <<confVars, toolVars, recvVars, hookVars,
                 lifeVars, send_queue, pre_send_time, spc, cur,
                 wakeAt, now, cpc, enq, sent>>

SlackOff ==
  /\ slack
  /\ slack' = FALSE
  /\ UNCHANGED <<confVars, toolVars, recvVars, hookVars,
                 lifeVars, send_queue, pre_send_time, spc, cur,
                 wakeAt, now, cpc, enq, sent>>

\* ----------------------------------------------------- _send_queue_watch
\* asyncio.Queue.get: the oldest item
QueueGetLast(q) == q[Len(q)]
QueueGet(q) == Head(q)

\* line 154: ACTION_PRESEND is emitted for action a
PresendEmitTwice(a) == Append(Append(presend, a), a)
PresendEmit(a) == Append(presend, a)

\* lines 147-154: an action is taken, the gate passed, the hook emitted
SenderTake ==
  /\ cur' = QueueGet(send_queue)
  /\ send_queue' = Tail(send_queue)
  /\ spc' = GateCR("hook")
  /\ presend' = IF spc' = "hook" THEN PresendEmit(cur') ELSE presend

\* line 147, top of the loop
SenderIter ==
  IF send_queue = <<>>
  THEN spc' = "get" /\ cur' = 0 /\ UNCHANGED <<send_queue, presend>>
  ELSE SenderTake

SenderBegin ==
  /\ spc = "created"
  /\ IF ready_signal
     THEN SenderIter
     ELSE spc' = "wait_rs" /\ UNCHANGED <<cur, send_queue, presend>>
  /\ UNCHANGED <<confVars, toolVars, recvVars, presend_done,
                 lifeVars, slack, pre_send_time, wakeAt, now, cpc,
                 enq, sent>>

SenderResume ==
  /\ spc \in {"rs_woken", "cr_woken"}
  /\ IF spc = "rs_woken"
     THEN SenderIter
     ELSE /\ spc' = "hook"
          /\ presend' = PresendEmit(cur)
          /\ UNCHANGED <<cur, send_queue>>
  /\ UNCHANGED <<confVars, toolVars, recvVars, presend_done,
                 lifeVars, slack, pre_send_time, wakeAt, now, cpc,
                 enq, sent>>

\* the getter blocked on the empty queue is woken by a put
SenderGet ==
  /\ spc = "get"
  /\ send_queue # <<>>
  /\ SenderTake
  /\ UNCHANGED <<confVars, toolVars, recvVars, presend_done,
                 lifeVars, slack, pre_send_time, wakeAt, now, cpc,
                 enq, sent>>

\* line 157
WaitTimeNoCd == 0 - (now - pre_send_time)
WaitTime == cd_time - (now - pre_send_time)

\* the ACTION_PRESEND emission returns: lines 155-159
SenderHookDone ==
  /\ spc = "hook"
  /\ spc' = "sleep"
  /\ presend_done' = presend_done \cup {cur}
  /\ wakeAt' = IF WaitTime > 0 THEN now + WaitTime ELSE now
  /\ UNCHANGED <<confVars, toolVars, recvVars, presend,
                 lifeVars, slack, send_queue, pre_send_time, cur,
                 now, cpc, enq, sent>>

\* the sleep ends and conn.send is called: line 160; ConnectionClosed ends
\* the loop (lines 165-168)
SenderSend ==
  /\ spc = "sleep"
  /\ now >= wakeAt
  /\ IF cst[conn] = "open"
     THEN spc' = "sending" /\ sent' = Append(sent, cur) /\ UNCHANGED cur
     ELSE spc' = "dead" /\ cur' = 0 /\ UNCHANGED sent
  /\ UNCHANGED <<confVars, toolVars, recvVars, hookVars,
                 lifeVars, slack, send_queue, pre_send_time,
                 wakeAt, now, cpc, enq>>

\* conn.send returns: lines 161-162, then the next iteration
SenderSent ==
  /\ spc = "sending"
  /\ pre_send_time' = now
  /\ SenderIter
  /\ UNCHANGED <<confVars, toolVars, recvVars, presend_done,
                 lifeVars, slack, wakeAt, now, cpc, enq, sent>>

\* time passes
Tick ==
  /\ now < MaxTime
  /\ now' = now + 1
  /\ UNCHANGED <<confVars, toolVars, recvVars, hookVars,
                 lifeVars, slack, send_queue, pre_send_time, spc,
                 cur, wakeAt, cpc, enq, sent>>

\* ------------------------------------------------------- specifications
LifeNext ==
  \/ AEnter
  \/ AExit
  \/ SetReady
  \/ AliveTasks
  \/ AliveBegin
  \/ AliveClosed
  \/ AliveReady
  \/ AliveCancel
  \/ \E r \in Runs : RunBegin(r)
  \/ \E r \in Runs : RunAcquired(r)
  \/ \E r \in Runs : ConnectOK(r)
  \/ \E r \in Runs : ConnectFail(r)
  \/ \E r \in Runs : RetryWake(r)
  \/ \E r \in Runs : RunCloseBegin(r)
  \/ \E r \in Runs : RunCloseEnd(r)
  \/ \E r \in Runs : TransportLost(r)
  \/ \E r \in Runs : ListenBegin(r)
  \/ \E r \in Runs : ListenResume(r)
  \/ \E r \in Runs : ListenHookDone(r)
  \/ \E r \in Runs : ListenRecvClosed(r)

SendNext ==
  \/ \E a \in Acts : SendCall(a)
  \/ \E a \in Acts : SendResume(a)
  \/ SlackOn
  \/ SlackOff
  \/ SenderBegin
  \/ SenderResume
  \/ SenderGet
  \/ SenderHookDone
  \/ SenderSend
  \/ SenderSent
  \/ Tick

Next == LifeNext \/ SendNext

Spec == Init /\ [][Next]_vars

\* the connection lifecycle alone: no action is submitted
LifeSpec == Init /\ [][LifeNext]_vars

\* the lifecycle with the units the transports deliver
RecvNext ==
  \/ LifeNext
  \/ \E r \in Runs, u \in Units : ListenRecv(r, u)
  \/ \E i \in 1..MaxUnits : DispatchDone(i)
  \/ \E r \in Runs : ListenCancelled(r)
RecvSpec == Init /\ [][RecvNext]_vars

\* the lifecycle with a second __aenter__
MultiNext == LifeNext \/ AEnterAgain
MultiSpec == Init /\ [][MultiNext]_vars

\* every task that can run is run, and every awaited transport operation
\* (a connect attempt, a close, a hook emission) returns
TaskFairness ==
  /\ WF_vars(AliveBegin) /\ WF_vars(AliveClosed) /\ WF_vars(AliveReady)
  /\ \A r \in Runs :
       /\ WF_vars(RunBegin(r)) /\ WF_vars(RunAcquired(r))
       /\ WF_vars(ConnectOK(r) \/ ConnectFail(r))
       /\ WF_vars(RetryWake(r))
       /\ WF_vars(RunCloseBegin(r)) /\ WF_vars(RunCloseEnd(r))
       /\ WF_vars(ListenBegin(r)) /\ WF_vars(ListenResume(r))
       /\ WF_vars(ListenHookDone(r)) /\ WF_vars(ListenRecvClosed(r))

FairLife == LifeSpec /\ TaskFairness

\* moreover the bot starts up and the endpoint accepts in the end
FairLifeAccept ==
  /\ LifeSpec
  /\ TaskFairness
  /\ WF_vars(SetReady)
  /\ WF_vars(AliveTasks)
  /\ \A r \in Runs : SF_vars(ConnectOK(r))

\* a connector built with allow_reconnect=True, never put in slack mode and
\* never closed by its owner: the sender and the lifecycle under fair
\* scheduling, the endpoint accepting in the end and time passing
ReconnInit == Init /\ allow_reconnect /\ max_retry = -1

ResendNext ==
  \/ AEnter
  \/ SetReady
  \/ AliveTasks
  \/ AliveBegin
  \/ AliveClosed
  \/ AliveReady
  \/ \E r \in Runs : RunBegin(r)
  \/ \E r \in Runs : RunAcquired(r)
  \/ \E r \in Runs : ConnectOK(r)
  \/ \E r \in Runs : ConnectFail(r)
  \/ \E r \in Runs : RetryWake(r)
  \/ \E r \in Runs : RunCloseBegin(r)
  \/ \E r \in Runs : RunCloseEnd(r)
  \/ \E r \in Runs : TransportLost(r)
  \/ \E r \in Runs : ListenBegin(r)
  \/ \E r \in Runs : ListenResume(r)
  \/ \E r \in Runs : ListenHookDone(r)
  \/ \E r \in Runs : ListenRecvClosed(r)
  \/ \E a \in Acts : SendCall(a)
  \/ \E a \in Acts : SendResume(a)
  \/ SenderBegin
  \/ SenderResume
  \/ SenderGet
  \/ SenderHookDone
  \/ SenderSend
  \/ SenderSent
  \/ Tick

SenderFairness ==
  /\ WF_vars(SenderBegin) /\ WF_vars(SenderResume) /\ WF_vars(SenderGet)
  /\ WF_vars(SenderHookDone) /\ WF_vars(SenderSend) /\ WF_vars(SenderSent)
  /\ \A a \in Acts : WF_vars(SendResume(a))
  /\ WF_vars(Tick)

FairResend ==
  /\ ReconnInit
  /\ [][ResendNext]_vars
  /\ TaskFairness
  /\ SenderFairness
  /\ WF_vars(SetReady)
  /\ WF_vars(AliveTasks)
  /\ \A r \in Runs : SF_vars(ConnectOK(r))

\* ============================================================ RWController
\* Tasks 1..MaxTasks enter and leave safe_read / safe_write.  A semaphore
\* permit is taken by any task that finds the value positive (a waiter that
\* was woken, or a newcomer); read_num_lock is handed to its first waiter.
otherVars == <<confVars, lifeVars, sendVars, recvVars, guardVars>>

\* line 79-80: the read semaphore, when there is one, has a permit
ReadSemFreeAlways == TRUE
ReadSemFree == read_limit = 0 \/ read_semaphore > 0

TakeReadSem ==
  read_semaphore' = IF read_limit = 0 THEN read_semaphore
                    ELSE read_semaphore - 1

RNLockFree == read_num_lock = 0 /\ rn_waiters = <<>>

\* read_num_lock is released: its first waiter owns it next
RNRelease ==
  IF rn_waiters = <<>>
  THEN read_num_lock' = 0 /\ rn_waiters' = <<>>
  ELSE read_num_lock' = Head(rn_waiters) /\ rn_waiters' = Tail(rn_waiters)

\* line 82
FirstReaderNever == FALSE
FirstReader == read_num = 0

\* lines 82-86, run by task t owning read_num_lock: the first reader takes
\* the write semaphore, or waits for it with the lock held
ReadIn(t) ==
  IF FirstReader /\ write_semaphore = 0
  THEN /\ tpc' = [tpc EXCEPT ![t] = "rd_wsem"]
       /\ read_num_lock' = t
       /\ UNCHANGED <<rn_waiters, read_num, write_semaphore>>
  ELSE /\ write_semaphore' = IF FirstReader THEN write_semaphore - 1
                             ELSE write_semaphore
       /\ read_num' = read_num + 1
       /\ tpc' = [tpc EXCEPT ![t] = "reading"]
       /\ RNRelease

\* line 81: async with read_num_lock
ReadLocked(t) ==
  IF RNLockFree
  THEN ReadIn(t)
  ELSE /\ tpc' = [tpc EXCEPT ![t] = "rd_lock"]
       /\ rn_waiters' = Append(rn_waiters, t)
       /\ UNCHANGED <<read_num_lock, read_num, write_semaphore>>

\* safe_read is entered: lines 79-86
ReadStart(t) ==
  /\ tpc[t] = "idle"
  /\ IF ReadSemFree
     THEN TakeReadSem /\ ReadLocked(t)
     ELSE /\ tpc' = [tpc EXCEPT ![t] = "rd_sem"]
          /\ UNCHANGED <<read_semaphore, write_semaphore, read_num,
                         read_num_lock, rn_waiters>>
  /\ UNCHANGED <<otherVars, twinVars, idVars, read_limit>>

\* a reader waiting at line 80 gets a permit
RdSemGranted(t) ==
  /\ tpc[t] = "rd_sem"
  /\ ReadSemFree
  /\ TakeReadSem
  /\ ReadLocked(t)
  /\ UNCHANGED <<otherVars, twinVars, idVars, read_limit>>

\* a reader waiting at line 81 is handed the lock
RdLockGranted(t) ==
  /\ tpc[t] = "rd_lock"
  /\ read_num_lock = t
  /\ ReadIn(t)
  /\ UNCHANGED <<otherVars, twinVars, idVars, read_limit, read_semaphore>>

\* the first reader waiting at line 83 gets the write semaphore
RdWsemGranted(t) ==
  /\ tpc[t] = "rd_wsem"
  /\ write_semaphore > 0
  /\ write_semaphore' = write_semaphore - 1
  /\ read_num' = read_num + 1
  /\ tpc' = [tpc EXCEPT ![t] = "reading"]
  /\ RNRelease
  /\ UNCHANGED <<otherVars, twinVars, idVars, read_limit, read_semaphore>>

\* lines 89-90: the reader that leaves is the last one
LastReaderNever == FALSE
LastReader == read_num - 1 = 0

\* lines 89-93, run by task t owning read_num_lock
ReadOut(t) ==
  /\ read_num' = read_num - 1
  /\ write_semaphore' = IF LastReader THEN write_semaphore + 1
                        ELSE write_semaphore
  /\ read_semaphore' = IF read_limit = 0 THEN read_semaphore
                       ELSE read_semaphore + 1
  /\ tpc' = [tpc EXCEPT ![t] = "idle"]
  /\ RNRelease

\* the body of safe_read ends: lines 87-93
ReadExit(t) ==
  /\ tpc[t] = "reading"
  /\ IF RNLockFree
     THEN ReadOut(t)
     ELSE /\ tpc' = [tpc EXCEPT ![t] = "rx_lock"]
          /\ rn_waiters' = Append(rn_waiters, t)
          /\ UNCHANGED <<read_num_lock, read_num, write_semaphore,
                         read_semaphore>>
  /\ UNCHANGED <<otherVars, twinVars, idVars, read_limit>>

\* a reader waiting at line 88 is handed the lock
RxLockGranted(t) ==
  /\ tpc[t] = "rx_lock"
  /\ read_num_lock = t
  /\ ReadOut(t)
  /\ UNCHANGED <<otherVars, twinVars, idVars, read_limit>>

\* safe_write is entered: line 98
WriteStart(t) ==
  /\ tpc[t] = "idle"
  /\ IF write_semaphore > 0
     THEN /\ write_semaphore' = write_semaphore - 1
          /\ tpc' = [tpc EXCEPT ![t] = "writing"]
     ELSE /\ tpc' = [tpc EXCEPT ![t] = "wr_wsem"]
          /\ UNCHANGED write_semaphore
  /\ UNCHANGED <<otherVars, twinVars, idVars, read_limit, read_semaphore,
                 read_num, read_num_lock, rn_waiters>>

\* a writer waiting at line 98 gets the write semaphore
WrGranted(t) ==
  /\ tpc[t] = "wr_wsem"
  /\ write_semaphore > 0
  /\ write_semaphore' = write_semaphore - 1
  /\ tpc' = [tpc EXCEPT ![t] = "writing"]
  /\ UNCHANGED <<otherVars, twinVars, idVars, read_limit, read_semaphore,
                 read_num, read_num_lock, rn_waiters>>

\* the body of safe_write ends: lines 101-102
WriteExit(t) ==
  /\ tpc[t] = "writing"
  /\ write_semaphore' = write_semaphore + 1
  /\ tpc' = [tpc EXCEPT ![t] = "idle"]
  /\ UNCHANGED <<otherVars, twinVars, idVars, read_limit, read_semaphore,
                 read_num, read_num_lock, rn_waiters>>

RWNext ==
  \/ \E t \in Tasks : ReadStart(t)
  \/ \E t \in Tasks : RdSemGranted(t)
  \/ \E t \in Tasks : RdLockGranted(t)
  \/ \E t \in Tasks : RdWsemGranted(t)
  \/ \E t \in Tasks : ReadExit(t)
  \/ \E t \in Tasks : RxLockGranted(t)
  \/ \E t \in Tasks : WriteStart(t)
  \/ \E t \in Tasks : WrGranted(t)
  \/ \E t \in Tasks : WriteExit(t)

\* an RWController built with read_limit None (0), 1, .. MaxReadLimit
RWStart ==
  /\ ConnDefault
  /\ RWInit(0..MaxReadLimit)
  /\ TwinInit
  /\ IdInit({1}, {1}, {0})
  /\ GuardInit

RWSpec == RWStart /\ [][RWNext]_vars

\* a task that holds or awaits something goes on: a body ends, a lock or a
\* read permit that is free is handed over (weak fairness); the waiters of
\* write_semaphore are woken in FIFO order, so a writer that could acquire
\* again and again does acquire (strong fairness).  Entering is not forced.
RWFairness ==
  \A t \in Tasks :
    /\ WF_vars(RdSemGranted(t))
    /\ WF_vars(RdLockGranted(t))
    /\ WF_vars(RdWsemGranted(t))
    /\ WF_vars(ReadExit(t))
    /\ WF_vars(RxLockGranted(t))
    /\ WF_vars(WriteExit(t))
    /\ SF_vars(WrGranted(t))

RWFair == RWStart /\ [][RWNext]_vars /\ RWFairness

\* ========================================================== AsyncTwinEvent
\* AsyncTwinEvent.set on event e of the pair: lines 40-43
SetAlone(tw, e) == [tw EXCEPT ![e] = TRUE]
Set(tw, e) == [tw EXCEPT ![e] = TRUE, ![Other(e)] = FALSE]

\* AsyncTwinEvent.clear on event e of the pair: lines 45-48
Clear(tw, e) == [tw EXCEPT ![e] = FALSE, ![Other(e)] = TRUE]

TwinSet(e) ==
  /\ Len(twin_calls) < MaxTwinCalls
  /\ twin' = Set(twin, e)
  /\ twin_calls' = Append(twin_calls, <<"set", e>>)
  /\ UNCHANGED <<otherVars, rwVars, idVars>>

TwinClear(e) ==
  /\ Len(twin_calls) < MaxTwinCalls
  /\ twin' = Clear(twin, e)
  /\ twin_calls' = Append(twin_calls, <<"clear", e>>)
  /\ UNCHANGED <<otherVars, rwVars, idVars>>

TwinNext ==
  \/ \E e \in {1, 2} : TwinSet(e)
  \/ \E e \in {1, 2} : TwinClear(e)

TwinStart ==
  /\ ConnDefault
  /\ RWInit({0})
  /\ TwinInit
  /\ IdInit({1}, {1}, {0})
  /\ GuardInit

TwinSpec == TwinStart /\ [][TwinNext]_vars

\* ================================================================ IdWorker
\* Times are milliseconds since STARTEPOCH, so that timestamp - STARTEPOCH
\* of line 154 is the timestamp itself.
WOKER_ID_SHIFT == 12
DATACENTER_ID_SHIFT == 15
TIMESTAMP_LEFT_SHIFT == 20
SEQUENCE_MASK == 4095
MAX_WORKER_ID == 7
MAX_DATACENTER_ID == 31

\* x << n, x & y and x | y on non-negative integers
Shl(x, n) == x * 2^n

RECURSIVE BitAnd(_, _)
BitAnd(x, y) ==
  IF x = 0 \/ y = 0 THEN 0
  ELSE (IF x % 2 = 1 /\ y % 2 = 1 THEN 1 ELSE 0)
       + 2 * BitAnd(x \div 2, y \div 2)

RECURSIVE BitOr(_, _)
BitOr(x, y) ==
  IF x = 0 THEN y
  ELSE IF y = 0 THEN x
  ELSE (IF x % 2 = 1 \/ y % 2 = 1 THEN 1 ELSE 0)
       + 2 * BitOr(x \div 2, y \div 2)

\* lines 153-158
NewId(timestamp, seq) ==
  BitOr(BitOr(BitOr(Shl(timestamp, TIMESTAMP_LEFT_SHIFT),
                    Shl(datacenter_id, DATACENTER_ID_SHIFT)),
              Shl(worker_id, WOKER_ID_SHIFT)),
        seq)

\* line 144
ClockRolledBackNever(timestamp) == FALSE
ClockRolledBack(timestamp) == timestamp < last_timestamp

\* line 166: __til_next_millis leaves its loop
TilNextDoneSameMs(timestamp) == timestamp >= last_timestamp
TilNextDone(timestamp) == timestamp > last_timestamp

\* lines 152-159: the call returns an id made with this timestamp
IdReturn(timestamp, seq, how) ==
  /\ last_timestamp' = timestamp
  /\ new_id' = NewId(timestamp, seq)
  /\ id_ret' = how
  /\ ipc' = "idle"

\* get_id is called and reads the clock: lines 141-151; when the sequence
\* wraps it goes on in __til_next_millis
GetId ==
  /\ ipc = "idle"
  /\ IF ClockRolledBack(clock)
     THEN /\ id_ret' = "error"
          /\ id_failed' = TRUE
          /\ UNCHANGED <<last_timestamp, sequence, new_id, ipc>>
     ELSE /\ UNCHANGED id_failed
          /\ IF clock = last_timestamp
             THEN /\ sequence' = BitAnd(sequence + 1, SEQUENCE_MASK)
                  /\ IF sequence' = 0
                     THEN /\ ipc' = "spin"
                          /\ id_ret' = "waiting"
                          /\ UNCHANGED <<last_timestamp, new_id>>
                     ELSE IdReturn(clock, sequence', "ok")
             ELSE /\ sequence' = 0
                  /\ IdReturn(clock, 0, "ok")
  /\ UNCHANGED <<otherVars, rwVars, twinVars, datacenter_id, worker_id,
                 clock>>

\* __til_next_millis reads a clock past last_timestamp: lines 165-168, then
\* lines 152-159
TilNextMillis ==
  /\ ipc = "spin"
  /\ TilNextDone(clock)
  /\ IdReturn(clock, sequence, "ok_waited")
  /\ UNCHANGED <<otherVars, rwVars, twinVars, datacenter_id, worker_id,
                 clock, sequence, id_failed>>

\* the clock advances by a millisecond
ClockTick ==
  /\ clock < MaxClock
  /\ clock' = clock + 1
  /\ UNCHANGED <<otherVars, rwVars, twinVars, datacenter_id, worker_id,
                 last_timestamp, sequence, ipc, new_id, id_ret, id_failed>>

\* the clock is set back by a millisecond
ClockBack ==
  /\ clock > 0
  /\ clock' = clock - 1
  /\ UNCHANGED <<otherVars, rwVars, twinVars, datacenter_id, worker_id,
                 last_timestamp, sequence, ipc, new_id, id_ret, id_failed>>

IdNext ==
  \/ GetId
  \/ TilNextMillis
  \/ ClockTick
  \/ ClockBack

\* an IdWorker with the ids of ID_WORKER or the largest ids
IdStart ==
  /\ ConnDefault
  /\ RWInit({0})
  /\ TwinInit
  /\ IdInit({1, MAX_DATACENTER_ID}, {1, MAX_WORKER_ID}, 0..MaxClock)
  /\ GuardInit

IdSpec == IdStart /\ [][IdNext]_vars

\* ------------------------------------------------------ lock (tools.py)
\* what a lock action leaves alone
lockRest == <<confVars, lifeVars, sendVars, recvVars, rwVars, twinVars,
              idVars, cdVars>>

\* how an awaited coroutine (func, or the one callback made) can end
Ends == {"value", "error"}

\* line 308: alock.locked()
LockedNever == FALSE
Locked == alock # 0

\* lines 308-316: wrapped_func up to its first await.  A busy lock sends the
\* call to callback(); otherwise `async with alock` takes the lock, which
\* needs no suspension when the lock is free, and func is started.  "wait"
\* is a call suspended in alock.acquire().
LockCall(c) ==
  /\ gpc[c] = "idle"
  /\ IF Locked
     THEN /\ callback_runs' = [callback_runs EXCEPT ![c] = @ + 1]
          /\ gpc' = [gpc EXCEPT ![c] = "callback"]
          /\ UNCHANGED <<alock, func_runs>>
     ELSE IF alock = 0
          THEN /\ alock' = c
               /\ func_runs' = [func_runs EXCEPT ![c] = @ + 1]
               /\ gpc' = [gpc EXCEPT ![c] = "func"]
               /\ UNCHANGED callback_runs
          ELSE /\ gpc' = [gpc EXCEPT ![c] = "wait"]
               /\ UNCHANGED <<alock, func_runs, callback_runs>>
  /\ UNCHANGED <<outcome, lockRest>>

\* line 314: the coroutine made by callback() ends; its result or its
\* exception is the call's
LockCallbackEnd(c, how) ==
  /\ gpc[c] = "callback"
  /\ gpc' = [gpc EXCEPT ![c] = "done"]
  /\ outcome' = [outcome EXCEPT ![c] = <<"callback", how>>]
  /\ UNCHANGED <<alock, func_runs, callback_runs, lockRest>>

\* lines 315-316: func ends; leaving `async with` releases the lock
LockFuncEnd(c, how) ==
  /\ gpc[c] = "func"
  /\ gpc' = [gpc EXCEPT ![c] = "done"]
  /\ outcome' = [outcome EXCEPT ![c] = <<"func", how>>]
  /\ alock' = 0
  /\ UNCHANGED <<func_runs, callback_runs, lockRest>>

LockNext ==
  \/ \E c \in Calls : LockCall(c)
  \/ \E c \in Calls, how \in Ends : LockCallbackEnd(c, how)
  \/ \E c \in Calls, how \in Ends : LockFuncEnd(c, how)

LockStart ==
  /\ ConnDefault
  /\ RWInit({0})
  /\ TwinInit
  /\ IdInit({1}, {1}, {0})
  /\ GuardInit

LockSpec == LockStart /\ [][LockNext]_vars

\* -------------------------------------------------- cooldown (tools.py)
\* what a cooldown action leaves alone
cdRest == <<confVars, lifeVars, sendVars, recvVars, rwVars, twinVars,
            idVars, lockVars>>

\* line 365: the cooldown is over for a call that measured `duration`
Cooled(duration) == duration > interval

\* lines 356-380: wrapped_func up to its first await.  A busy lock sends the
\* call to busy_callback(); otherwise the lock is taken and the time since
\* pre_finish_t decides between func, cd_callback(remain_t) and the sleep.
CdCall(c) ==
  /\ kpc[c] = "idle"
  /\ IF cd_alock # 0
     THEN /\ kpc' = [kpc EXCEPT ![c] = "busy_callback"]
          /\ UNCHANGED <<cd_alock, remain_t, cd_wake>>
     ELSE LET duration == cd_clock - pre_finish_t IN
          /\ cd_alock' = c
          /\ IF Cooled(duration)
             THEN /\ kpc' = [kpc EXCEPT ![c] = "func"]
                  /\ UNCHANGED <<remain_t, cd_wake>>
             ELSE /\ remain_t' = [remain_t EXCEPT ![c] = interval - duration]
                  /\ IF cd_callback
                     THEN /\ kpc' = [kpc EXCEPT ![c] = "cd_callback"]
                          /\ UNCHANGED cd_wake
                     ELSE /\ kpc' = [kpc EXCEPT ![c] = "sleep"]
                          /\ cd_wake' = [cd_wake EXCEPT
                                           ![c] = cd_clock + remain_t'[c]]
  /\ UNCHANGED <<cd_callback, pre_finish_t, cd_clock, cdRest>>

\* line 362: the coroutine made by busy_callback() ends
CdBusyEnd(c) ==
  /\ kpc[c] = "busy_callback"
  /\ kpc' = [kpc EXCEPT ![c] = "done"]
  /\ UNCHANGED <<cd_alock, cd_callback, pre_finish_t, cd_clock, remain_t,
                 cd_wake, cdRest>>

\* line 377: the coroutine made by cd_callback(remain_t) ends, in the lock
CdCallbackEnd(c) ==
  /\ kpc[c] = "cd_callback"
  /\ kpc' = [kpc EXCEPT ![c] = "done"]
  /\ cd_alock' = 0
  /\ UNCHANGED <<cd_callback, pre_finish_t, cd_clock, remain_t, cd_wake,
                 cdRest>>

\* lines 379-380: the sleep is over and func is started
CdWake(c) ==
  /\ kpc[c] = "sleep"
  /\ cd_clock >= cd_wake[c]
  /\ kpc' = [kpc EXCEPT ![c] = "func"]
  /\ UNCHANGED <<cd_alock, cd_callback, pre_finish_t, cd_clock, remain_t,
                 cd_wake, cdRest>>

\* lines 366-368 and 380-382: func ends.  When it returned, pre_finish_t is
\* set; an exception leaves it alone.  The lock is released either way.
CdFuncEnd(c, how) ==
  /\ kpc[c] = "func"
  /\ kpc' = [kpc EXCEPT ![c] = "done"]
  /\ pre_finish_t' = IF how = "value" THEN cd_clock ELSE pre_finish_t
  /\ cd_alock' = 0
  /\ UNCHANGED <<cd_callback, cd_clock, remain_t, cd_wake, cdRest>>

\* time.time() advances
CdTick ==
  /\ cd_clock < MaxCdClock
  /\ cd_clock' = cd_clock + 1
  /\ UNCHANGED <<cd_alock, cd_callback, pre_finish_t, kpc, remain_t, cd_wake,
                 cdRest>>

CdNext ==
  \/ \E c \in Calls : CdCall(c)
  \/ \E c \in Calls : CdBusyEnd(c)
  \/ \E c \in Calls : CdCallbackEnd(c)
  \/ \E c \in Calls : CdWake(c)
  \/ \E c \in Calls, how \in Ends : CdFuncEnd(c, how)
  \/ CdTick

\* a function decorated with or without a cd_callback
CdStart ==
  /\ ConnDefault
  /\ RWInit({0})
  /\ TwinInit
  /\ IdInit({1}, {1}, {0})
  /\ LockInit
  /\ CdInit(BOOLEAN)

CdSpec == CdStart /\ [][CdNext]_vars

\* ================================================================ claims
PosIn(seq, x) == CHOOSE i \in 1..Len(seq) : seq[i] = x

\* C1: the actions the sender loop transmits are, in order and without
\* repetition, a subsequence of the actions in the order they were put on
\* the send queue.
C1_SendOrder ==
  /\ \A i \in 1..Len(sent) : \E j \in 1..Len(enq) : enq[j] = sent[i]
  /\ \A i, j \in 1..Len(sent) :
       i < j => PosIn(enq, sent[i]) < PosIn(enq, sent[j])

C1_Witness == Len(sent) >= 2

\* C2: whenever the sender loop transmits after an earlier transmission, at
\* least cd_time has passed since the time recorded for the earlier one.
C2_CooldownGap ==
  [][(Len(sent') > Len(sent) /\ Len(sent) >= 1)
       => now - pre_send_time >= cd_time]_vars

C2_Witness ==
  /\ Len(sent) >= 2
  /\ spc = "sending"
  /\ now - pre_send_time = cd_time

\* C3: a _run that fails with BotConnectFailed has made exactly
\* max_retry + 1 attempts (max_retry >= 0), has opened no transport, set no
\* ready gate and started no receive loop; with max_retry < 0 no _run fails,
\* and with max_retry >= 0 no _run makes more than max_retry + 1 attempts.
C3_RetryBudget ==
  \A r \in Runs :
    /\ rpc[r] = "failed" =>
         /\ max_retry >= 0
         /\ tries[r] = max_retry + 1
         /\ cst[r] = "none"
         /\ lpc[r] = "none"
         /\ ~conn_ready
    /\ max_retry >= 0 => tries[r] <= max_retry + 1

C3_Witness == \E r \in Runs : rpc[r] = "failed" /\ tries[r] >= 2

\* a connect attempt begins in this step
AttemptStarts ==
  \E r \in Runs :
    /\ rpc'[r] = "connecting"
    /\ rpc[r] # "connecting" \/ tries'[r] # tries[r]

\* C4: with reconnection allowed and no terminal close requested, a
\* transport lost while the receive loop of a Ready session is reading leads
\* to the next _run beginning its first connect attempt (or to a terminal
\* close being requested meanwhile).
C4_ReconnectBegins ==
  \A r \in 1..(MaxRuns - 1) :
    (/\ cst[r] = "lost" /\ lpc[r] = "recv" /\ lrd[r] = r
     /\ rpc[r] = "await_close" /\ conn_ready
     /\ allow_reconn /\ ~closeReq)
      ~> (closeReq \/ (rpc[r + 1] = "connecting" /\ tries[r + 1] = 1))

C4_Witness ==
  \E r \in 1..(MaxRuns - 1) :
    /\ reconn_flag /\ lpc[r] = "done" /\ cst[r] = "closed" /\ ~closeReq
    /\ rpc[r + 1] = "connecting" /\ tries[r + 1] = 1

\* C5: with allow_reconnect false, a receive loop that finds its transport
\* gone and no close signalled completes the close signal itself and starts
\* no _run; once a receive loop has ended no connect attempt begins, the
\* signal is complete, no _run is pending, and a finished _run has closed
\* its transport; and a transport lost under a reading receive loop leads
\* to the session being closed.
C5_NoReconnectClose ==
  /\ \A r \in Runs :
       (~allow_reconnect /\ cst[r] = "lost" /\ lpc[r] = "recv")
         ~> (/\ futDone[r] /\ lpc[r] = "done"
             /\ rpc[r] = "done" /\ cst[r] = "closed")
  /\ [][~allow_reconnect =>
       /\ \A r \in Runs :
            (lpc[r] = "recv" /\ lpc'[r] = "done") =>
              /\ futDone'[client_close]
              /\ ~allow_reconn'
              /\ nRuns' = nRuns
       /\ (\E r \in Runs : lpc[r] = "done") => ~AttemptStarts
       /\ \A r \in Runs : lpc'[r] = "done" =>
            /\ futDone'[r]
            /\ rpc'[r] \in {"await_close", "closing", "done"}
            /\ rpc'[r] = "done" => cst'[r] = "closed"
            /\ \A x \in Runs : x # r => rpc'[x] = "none"]_vars

C5_Witness ==
  \E r \in Runs :
    /\ ~allow_reconnect /\ ~closeReq
    /\ lpc[r] = "done" /\ rpc[r] = "done" /\ cst[r] = "closed"

\* C6: once _close() has been called, _allow_reconn is false, no connect
\* attempt begins and the ready gate is not set again.
C6_CloseIrreversible ==
  [][closeReq =>
       /\ ~allow_reconn'
       /\ ~AttemptStarts
       /\ conn_ready' => conn_ready]_vars

\* C7: at most one transport is open or not yet closed, and a _run that is
\* connecting, retrying or holding a transport owns _run_lock.
Live == {r \in Runs : cst[r] \in {"open", "lost"}}

C7_OneTransport ==
  /\ Cardinality(Live) <= 1
  /\ \A r \in Live : conn = r
  /\ \A r \in Runs :
       rpc[r] \in {"connecting", "retry_sleep", "await_close", "closing"}
         => run_lock = r

C7_Witness ==
  \E r, x \in Runs : cst[r] = "open" /\ rpc[x] = "lock_wait" /\ entered = 2

\* the sender loop calls conn.send in this step
SenderCallsSend == spc = "sleep" /\ spc' \in {"sending", "dead"}

\* C8: whenever the sender loop calls conn.send the ready gate is set.
C8_SendOnlyWhenReady == [][SenderCallsSend => conn_ready]_vars

\* the session has shut down
ShutDown ==
  /\ \A r \in Runs :
       /\ rpc[r] \in {"none", "done", "failed"}
       /\ cst[r] \in {"none", "closed"}
       /\ lpc[r] \in {"none", "done"}
  /\ apc \in {"none", "done"}

\* C9: a terminal close request leads to the session being shut down.
C9_CloseShutsDown == closeReq ~> ShutDown

\* C10: no Future is completed twice, and _close() called when the close
\* signal is already complete changes nothing.
C10_CloseIdempotent ==
  [][/\ err' = "none"
     /\ (AExit /\ futDone[client_close]) =>
          UNCHANGED <<confVars, toolVars, recvVars, emitted,
                      sendVars, conn, cst, client_close, futDone,
                      conn_ready, allow_reconn, reconn_flag, run_lock,
                      lock_waiters, rpc, tries, nRuns, entered, lpc, lrd, apc,
                      afut, ready_signal, err>>]_vars

C10_Witness == closeReq /\ futDone[client_close] /\ allow_reconn

\* the runs that have entered Ready, and the first of them
Entered == {r \in Runs : cst[r] # "none"}
FirstEntry == CHOOSE r \in Entered : \A x \in Entered : r <= x
EmittedBy(r) == {i \in 1..Len(emitted) : emitted[i][1] = r}

\* C11: the receive loop of each entry into Ready emits exactly one
\* lifecycle signal: FIRST_CONNECTED for the first entry of the session,
\* RECONNECTED for every later one; a loop past its gates has emitted, and
\* every entry into Ready leads to its emission.
C11_LifecycleSignals ==
  /\ [](\A r \in Runs :
         /\ Cardinality(EmittedBy(r)) <= 1
         /\ EmittedBy(r) # {} => r \in Entered
         /\ lpc[r] \in {"hook", "recv", "done"} => EmittedBy(r) # {})
  /\ [](\A i \in 1..Len(emitted) :
         emitted[i][2] = IF emitted[i][1] = FirstEntry
                         THEN "FIRST_CONNECTED" ELSE "RECONNECTED")
  /\ \A r \in Runs : (r \in Entered) ~> (EmittedBy(r) # {})

C11_Witness ==
  /\ Len(emitted) = 2
  /\ emitted[1] = <<1, "FIRST_CONNECTED">>
  /\ emitted[2] = <<2, "RECONNECTED">>

\* tasks in the body of safe_read (or leaving it, their count not yet
\* taken back), and tasks in the body of safe_write
Readers == {t \in Tasks : tpc[t] \in {"reading", "rx_lock"}}
Writers == {t \in Tasks : tpc[t] = "writing"}

\* C12: while a task is inside safe_write no other task is inside
\* safe_write and no task is inside safe_read.
C12_WriterExclusive ==
  \A t \in Writers : Writers = {t} /\ Readers = {}

C12_Witness ==
  /\ Cardinality({t \in Tasks : tpc[t] = "reading"}) >= 2
  /\ \E t \in Tasks : tpc[t] = "wr_wsem"

\* C13: with read_limit = k > 0 at most k tasks are inside safe_read, and
\* a task enters safe_read only when fewer than k are inside.
C13_ReaderBound ==
  /\ [](read_limit > 0 => Cardinality(Readers) <= read_limit)
  /\ [][\A t \in Tasks :
          (read_limit > 0 /\ tpc[t] # "reading" /\ tpc'[t] = "reading")
            => Cardinality(Readers) < read_limit]_vars

C13_Witness ==
  /\ read_limit = 2
  /\ Cardinality({t \in Tasks : tpc[t] = "reading"}) = 2
  /\ \E t \in Tasks : tpc[t] = "rd_sem"

\* C14: the pair of get_twin_event starts with the first event clear and
\* the second set; after any calls exactly one of the two is set; set() on
\* an event leaves it set and its partner clear, clear() leaves it clear
\* and its partner set.
C14_TwinComplement ==
  /\ [](twin_calls = <<>> => (~twin[1] /\ twin[2]))
  /\ [](twin[1] # twin[2])
  /\ [][\A e \in {1, 2} :
          /\ TwinSet(e) => (twin'[e] /\ ~twin'[Other(e)])
          /\ TwinClear(e) => (~twin'[e] /\ twin'[Other(e)])]_vars

C14_Witness ==
  /\ Len(twin_calls) >= 3
  /\ twin_calls[Len(twin_calls)] = <<"set", 1>>
  /\ twin_calls[Len(twin_calls) - 1] = <<"set", 2>>
  /\ twin[1] /\ ~twin[2]

\* a get_id call returns an id in this step
IdReturned ==
  \/ GetId /\ ipc' = "idle" /\ id_ret' = "ok"
  \/ TilNextMillis

\* C15: every id get_id returns is greater than the id returned before it;
\* when the sequence wraps within a millisecond the call returns nothing
\* until the clock is past last_timestamp, and then returns an id with
\* that later timestamp and sequence 0.
C15_IdsIncrease ==
  [][/\ IdReturned => new_id' > new_id
     /\ (GetId /\ clock = last_timestamp /\ sequence = SEQUENCE_MASK) =>
          (ipc' = "spin" /\ new_id' = new_id)
     /\ (ipc = "spin" /\ ipc' = "idle") =>
          /\ clock > last_timestamp
          /\ last_timestamp' = clock
          /\ sequence' = 0
          /\ new_id' \div 2^TIMESTAMP_LEFT_SHIFT = clock
          /\ new_id' % (SEQUENCE_MASK + 1) = 0]_vars

C15_Witness == id_ret = "ok_waited" /\ ~id_failed /\ new_id > 0

\* C16: a get_id call that reads a clock before last_timestamp raises at
\* once, returns no id and leaves last_timestamp and sequence as they were;
\* a call made after a failure with the clock at or past last_timestamp
\* does not raise and the id it returns is greater than the ids before it.
C16_RollbackFails ==
  [][/\ (GetId /\ clock < last_timestamp) =>
          /\ id_ret' = "error"
          /\ ipc' = "idle"
          /\ UNCHANGED <<last_timestamp, sequence, new_id>>
     /\ (GetId /\ id_failed /\ clock >= last_timestamp) =>
          /\ id_ret' # "error"
          /\ ipc' = "idle" => (id_ret' = "ok" /\ new_id' > new_id)
     /\ (TilNextMillis /\ id_failed) => new_id' > new_id]_vars

C16_Witness ==
  /\ id_failed
  /\ id_ret = "ok"
  /\ sequence > 0

InSeq(seq, x) == \E i \in 1..Len(seq) : seq[i] = x

C18_SlackDrops ==
  /\ [](\A a \in Acts : cpc[a] = "dropped" =>
         /\ ~InSeq(enq, a)
         /\ ~InSeq(send_queue, a)
         /\ ~InSeq(sent, a)
         /\ ~InSeq(presend, a)
         /\ cur # a)
  /\ [][\A a \in Acts :
          /\ (cpc[a] # "dropped" /\ cpc'[a] = "dropped") =>
               (slack /\ send_queue' = send_queue /\ enq' = enq)
          /\ ((SendCall(a) \/ SendResume(a)) /\ slack
                /\ cpc'[a] \notin {"wait_rs", "wait_cr"}) =>
               cpc'[a] = "dropped"]_vars

C18_Witness == cpc[1] = "dropped" /\ sent = <<2>> /\ ~slack

\* C19: whenever the transport last opened has been closed and no new one
\* has been opened, the ready gate is clear.
C19_GateClearWhenDown ==
  (conn # 0 /\ cst[conn] = "closed") => ~conn_ready

\* the session is Ready on a transport opened by a reconnect
ReadyAgain ==
  /\ reconn_flag /\ conn_ready /\ ~closeReq
  /\ cst[conn] = "open" /\ rpc[conn] = "await_close"

\* C20: once the sender loop has ended on a closed transport and the
\* session is Ready again after a reconnect, a sender loop is running
\* again, and an action put on the queue from then on is transmitted.
C20_SenderRestarts ==
  /\ (spc = "dead" /\ ReadyAgain) ~> (spc # "dead" \/ ~ReadyAgain)
  /\ \A a \in Acts :
       []((spc = "dead" /\ ReadyAgain /\ cpc[a] = "idle") =>
            [](InSeq(send_queue, a) => <>(InSeq(sent, a) \/ ~ReadyAgain)))

\* ------------------------------------------------------------ C21, C22
\* the step is a recv() that returned; the unit it returned
Received == Len(recvd') = Len(recvd) + 1
LastUnit == recvd'[Len(recvd')]
\* a unit that is empty, or whose decoding or dispatch issuance raises
BadUnit(u) == IsEmpty(u) \/ ~Builds(u) \/ ~Issues(u)

\* C21: the receive loop survives bad input.  A step in which recv() returns
\* an empty unit, or a unit whose decoding or dispatch issuance raises, leaves
\* every _listen task where it was (at recv(), about to read the next unit),
\* issues nothing and starts neither a close nor a reconnect; a _listen task
\* leaves the loop only when its transport is closed or when it is cancelled.
C21_LoopSurvives ==
  [][/\ (Received /\ BadUnit(LastUnit)) =>
          /\ lpc' = lpc
          /\ UNCHANGED <<issued, futDone, client_close, conn_ready,
                         allow_reconn, reconn_flag, nRuns, rpc, closeReq>>
     /\ \A r \in Runs :
          (lpc[r] = "recv" /\ lpc'[r] # "recv") =>
            \/ cst[lrd[r]] # "open" /\ ListenRecvClosed(r)
            \/ ListenCancelled(r)]_vars

\* one loop has read an empty unit, an undecodable unit, and then read and
\* issued the next
C21_Witness ==
  /\ nRuns = 1
  /\ lpc[1] = "recv"
  /\ cst[lrd[1]] = "open"
  /\ recvd = <<"empty", "undecodable", "common">>
  /\ issued = <<<<3, "common_dispatcher">>>>
  /\ ~futDone[client_close]

\* the entries of the issue log made for unit i
IssuesOf(i) == {k \in 1..Len(issued) : issued[k][1] = i}

\* C22: every non-empty decoded unit whose issuance does not raise is handed
\* to a dispatcher exactly once, the response dispatcher exactly when it is a
\* response event; nothing else is issued; the issue log follows the receive
\* order; and a loop at recv() on an open transport can read the next unit
\* whatever dispatch tasks are still running.
C22_DispatchOnce ==
  /\ \A i \in 1..Len(recvd) :
       /\ Cardinality(IssuesOf(i)) = (IF recvd[i] \in {"response", "common"}
                                      THEN 1 ELSE 0)
       /\ \A k \in IssuesOf(i) :
            (issued[k][2] = "resp_dispatcher") <=> (recvd[i] = "response")
  /\ \A k \in 1..Len(issued) : issued[k][1] \in 1..Len(recvd)
  /\ \A k, l \in 1..Len(issued) : k < l => issued[k][1] < issued[l][1]
  /\ dispatching \subseteq {issued[k][1] : k \in 1..Len(issued)}
  /\ \A r \in Runs :
       (lpc[r] = "recv" /\ cst[lrd[r]] = "open" /\ Len(recvd) < MaxUnits) =>
         ENABLED ListenRecv(r, "common")

\* a response and then another event were read and issued in that order, the
\* second while the dispatch task of the first was still running
C22_Witness ==
  /\ recvd = <<"response", "common">>
  /\ issued = <<<<1, "resp_dispatcher">>, <<2, "common_dispatcher">>>>
  /\ dispatching = {1, 2}

\* ----------------------------------------------------------------- C23
\* the calls inside the wrapped operation
Running == {c \in Calls : gpc[c] = "func"}

\* C23: under the lock guard at most one call is inside the wrapped operation
\* and no call is ever suspended on the lock; a call that arrives while one
\* is running goes to the fallback in the same step, invokes it exactly once
\* and does not run the wrapped operation, and what it returns or raises is
\* what the fallback returned or raised.
C23_LockGuard ==
  /\ [](/\ Cardinality(Running) <= 1
        /\ \A c \in Calls :
             /\ gpc[c] # "wait"
             /\ gpc[c] = "callback" =>
                  callback_runs[c] = 1 /\ func_runs[c] = 0
             /\ (gpc[c] = "done" /\ func_runs[c] = 0) =>
                  callback_runs[c] = 1 /\ outcome[c][1] = "callback"
             /\ outcome[c][1] = "callback" =>
                  callback_runs[c] = 1 /\ func_runs[c] = 0)
  /\ [][\A c \in Calls :
          /\ (gpc[c] = "idle" /\ gpc'[c] # "idle" /\ Running # {}) =>
               /\ gpc'[c] = "callback"
               /\ callback_runs'[c] = 1
               /\ func_runs'[c] = 0
               /\ alock' = alock
          /\ (gpc[c] = "callback" /\ gpc'[c] # "callback") =>
               \E how \in Ends :
                 LockCallbackEnd(c, how) /\ outcome'[c] = <<"callback", how>>
     ]_vars

\* a call arrived while another was running, its fallback raised, and the
\* first call is still running
C23_Witness ==
  /\ gpc[1] = "func"
  /\ gpc[2] = "done"
  /\ outcome[2] = <<"callback", "error">>
  /\ callback_runs[2] = 1
  /\ func_runs[2] = 0

\* ----------------------------------------------------------------- C24
\* a call of the cooldown-wrapped function arrives and finds no call running
CdArrives(c) == kpc[c] = "idle" /\ kpc'[c] # "idle" /\ cd_alock = 0

\* C24: under the cooldown guard, a call that finds no call running runs the
\* wrapped operation when at least `interval` has passed since the last
\* completed call (and always when no call has completed yet); before that
\* it calls cd_callback with the positive remainder interval - elapsed when
\* a cd_callback was given, and otherwise sleeps for that remainder and then
\* runs; pre_finish_t changes only when the wrapped operation returns.
C24_CooldownGuard ==
  [][/\ \A c \in Calls :
          CdArrives(c) =>
            LET elapsed == cd_clock - pre_finish_t IN
            /\ elapsed >= interval => kpc'[c] = "func"
            /\ elapsed < interval =>
                 /\ remain_t'[c] = interval - elapsed
                 /\ remain_t'[c] > 0
                 /\ IF cd_callback
                    THEN kpc'[c] = "cd_callback"
                    ELSE kpc'[c] = "sleep" /\ cd_wake'[c] = cd_clock + remain_t'[c]
     /\ pre_finish_t' # pre_finish_t =>
          \E c \in Calls : CdFuncEnd(c, "value")]_vars

\* ----------------------------------------------------------------- C25
\* a step of a task that is inside safe_read or safe_write, or waits there
RWProgress ==
  \E t \in Tasks :
    \/ RdSemGranted(t)
    \/ RdLockGranted(t)
    \/ RdWsemGranted(t)
    \/ ReadExit(t)
    \/ RxLockGranted(t)
    \/ WrGranted(t)
    \/ WriteExit(t)

\* tasks suspended on a semaphore or on read_num_lock
Waiting == {t \in Tasks : tpc[t] \in {"rd_sem", "rd_lock", "rd_wsem",
                                        "rx_lock", "wr_wsem"}}

\* no reader enters safe_read in this step
NoNewReader == \A t \in Tasks : ~ReadStart(t)

\* C25: the RWController never deadlocks and releases cleanly.  Whenever a
\* task waits, some task that is inside or waiting can take a step; when all
\* tasks have left, read_num is 0, the write semaphore and read_num_lock are
\* free and every read permit is back; a waiting writer can acquire as soon
\* as no reader is counted and no writer is writing, and once no new reader
\* arrives every waiting writer does acquire.
C25_NoDeadlock ==
  /\ [](/\ Waiting # {} => ENABLED RWProgress
        /\ (\A t \in Tasks : tpc[t] = "idle") =>
             /\ read_num = 0
             /\ write_semaphore = 1
             /\ read_semaphore = read_limit
             /\ read_num_lock = 0
             /\ rn_waiters = <<>>
        /\ \A t \in Tasks :
             (tpc[t] = "wr_wsem" /\ read_num = 0 /\ Writers = {}
                /\ \A u \in Tasks : tpc[u] # "rd_wsem") =>
               ENABLED WrGranted(t))
  /\ \A t \in Tasks :
       <>[][NoNewReader]_vars => ((tpc[t] = "wr_wsem") ~> (tpc[t] = "writing"))

\* a writer waits behind a reader while another reader waits for a permit
C25_Witness ==
  /\ read_limit = 1
  /\ tpc[1] = "reading"
  /\ tpc[2] = "wr_wsem"
  /\ tpc[3] = "rd_sem"
====
